---------------------------- MODULE Spec2Model ----------------------------
(***************************************************************************)
(* Algorithm footprints (cave/plot/algorithm_footprint.py).                *)
(*                                                                         *)
(* The class AlgorithmFootprint is modelled as a state machine: the        *)
(* object's fields (insts, features_2d, cutoff, algo_performance,          *)
(* algo_labels) and the locals of one running footprint() call (good,      *)
(* not_in_region, regions, centroids, ...).  footprint() is split into its *)
(* loop iterations so that the intermediate region maps are states.        *)
(*                                                                         *)
(* Numbers.  Instance positions are integer points.  A centroid is the     *)
(* exact rational mean <<sx, sy, n>> (standing for (sx/n, sy/n)) in lowest *)
(* terms; for integer positions two float centroids sum/len are equal      *)
(* exactly when the rationals are.  Areas are kept doubled (area2), so the *)
(* triangle (0,0),(1,0),(0,1) of area 0.5 has area2 = 1.  Thresholds and   *)
(* epsilon are rationals: epsilon in hundredths, thresholds <<num, den>>.  *)
(***************************************************************************)
EXTENDS Integers, Sequences, FiniteSets

VARIABLES
    \* ---- the object (self.*)
    insts,              \* self.insts: instance names, here 1..n in order
    features_2d,        \* self.features_2d: position of each instance
    rh,                 \* self.rh: the cost source, config -> inst -> cost
    cutoff,             \* self.cutoff
    algo_performance,   \* self.algo_performance: config -> cost dict (cache)
    algo_labels,        \* self.algo_labels: config -> inst -> label
    rh_queries,         \* ghost: get_cost_dict_for_config calls per config
    last_epsilon,       \* ghost: epsilon of the latest label_instances call
    exc,                \* ghost: the exception the latest labelling raised
    \* ---- one footprint() call
    pc,                 \* position: init, clustering, new, failed, idle, grow,
                        \* merge, scan, area, done, raised, plot_eps,
                        \* plot_clusters
    a,                  \* the configuration of the call
    density_threshold,
    purity_threshold,
    good,               \* list of the good instances of a
    not_in_region,      \* list of the unassigned instances
    rand_good,          \* the seed of the current growing iteration
    regions,            \* OrderedDict centroid -> instances, as a sequence
    centroids,          \* the shuffled visiting order of the current pass
    idx,                \* position of the for loop in centroids
    stop,
    count_exceptions,
    area2,              \* twice the returned area
    \* ---- ghosts of the call
    n_grow,             \* growing iterations done
    n_commits,          \* merges committed
    n_regions_at_merge, \* number of regions when the merge stage began
    \* ---- the Instance Clusterer
    clusters,           \* cluster id of each instance, in the order of insts
    cluster_dict,       \* cluster id -> list of instance names
    n_clusters,         \* the candidate cluster count of get_clusters
    best_score,         \* in hundredths
    best_n_clusters,
    scores,             \* ghost: candidate cluster count -> its score
    \* ---- plot_points_per_cluster
    plot_i,             \* position of the current loop
    plot_log            \* ghost: the epsilons labelled with, in order

objvars  == <<insts, features_2d, rh, cutoff, algo_performance, algo_labels,
              rh_queries, last_epsilon, exc>>
callvars == <<a, density_threshold, purity_threshold, good, not_in_region,
              rand_good, regions, centroids, idx, stop, count_exceptions, area2,
              n_grow, n_commits, n_regions_at_merge>>
clustervars == <<clusters, cluster_dict, n_clusters, best_score,
                 best_n_clusters, scores, plot_i, plot_log>>
vars     == <<objvars, pc, callvars, clustervars>>

---------------------------------------------------------------------------
(* Bounds of the model                                                     *)

\* largest number of instances of a facade
MaxInsts == 10
\* largest number of instances of a facade whose costs are unrestricted
SmallInsts == 6
\* costs of the cost source range over 1..MaxCost
MaxCost == 2

---------------------------------------------------------------------------
(* Inputs                                                                  *)

\* algorithms.keys(): the compared configurations (default, incumbent)
Configs == {1, 2}

\* cutoff=np.inf: above every cost of the model
Inf == 1000000

\* label_instances(self, epsilon=0.95), in hundredths
DefaultEpsilon == 95

---------------------------------------------------------------------------
(* Lists and dictionaries                                                  *)

Range(s) == {s[k] : k \in 1..Len(s)}

\* list.remove(x); except ValueError: pass  -- drops the first occurrence
ListRemove(s, x) ==
    IF x \in Range(s)
    THEN LET k == CHOOSE j \in 1..Len(s) :
                      s[j] = x /\ \A m \in 1..(j - 1) : s[m] # x
         IN  SubSeq(s, 1, k - 1) \o SubSeq(s, k + 1, Len(s))
    ELSE s

\* mutant of ListRemoveAll: only the first of xs is removed
ListRemoveAll_FirstOnly(s, xs) == ListRemove(s, Head(xs))

RECURSIVE ListRemoveAll(_, _)
\* for p in triangle: try: not_in_region.remove(p) except ValueError: pass
ListRemoveAll(s, xs) ==
    IF xs = <<>> THEN s
    ELSE ListRemoveAll(ListRemove(s, Head(xs)), Tail(xs))

\* list(regions.keys())
Keys(d) == [k \in 1..Len(d) |-> d[k].cent]

\* c in regions
HasKey(d, c) == \E k \in 1..Len(d) : d[k].cent = c

\* regions[cent]
DictGet(d, c) == d[CHOOSE k \in 1..Len(d) : d[k].cent = c].members

\* regions[cent] = v : a new key goes last, an existing key keeps its place
\* and has its value replaced
DictSet(d, c, v) ==
    IF HasKey(d, c)
    THEN [k \in 1..Len(d) |-> IF d[k].cent = c THEN [cent |-> c, members |-> v]
                              ELSE d[k]]
    ELSE Append(d, [cent |-> c, members |-> v])

\* regions.pop(cent)
DictPop(d, c) == SelectSeq(d, LAMBDA e : e.cent # c)

\* all orders rng.shuffle can leave a list in
Shuffles(s) ==
    {p \in [1..Len(s) -> Range(s)] :
        \A x \in Range(s) : \E k \in 1..Len(s) : p[k] = x}

---------------------------------------------------------------------------
(* Geometry                                                                *)

RECURSIVE Gcd(_, _)
Gcd(m, n) == IF n = 0 THEN m ELSE Gcd(n, m % n)

Abs(x) == IF x < 0 THEN -x ELSE x

RECURSIVE SumOver(_, _)
\* sum of f[x] over the finite set S
SumOver(S, f) ==
    IF S = {} THEN 0
    ELSE LET x == CHOOSE y \in S : TRUE
         IN  f[x] + SumOver(S \ {x}, f)

\* a rational point (sx/n, sy/n) in lowest terms
Rat(sx, sy, n) ==
    LET g == Gcd(Gcd(Abs(sx), Abs(sy)), n)
    IN  <<sx \div g, sy \div g, n \div g>>

\* np.sum(array, axis=0)/len(array): the mean of a set of integer points
MeanOf(P, pos) ==
    Rat(SumOver(P, [i \in P |-> pos[i][1]]),
        SumOver(P, [i \in P |-> pos[i][2]]),
        Cardinality(P))

\* mutant of Dist2Num: the distance along the first axis only
Dist2Num_FirstAxis(p, q) ==
    LET dx == p[1] * q[3] - q[1] * p[3]
    IN  dx * dx

\* np.linalg.norm(p - q) of two rational points, squared, times
\* (p[3]*q[3])^2
Dist2Num(p, q) ==
    LET dx == p[1] * q[3] - q[1] * p[3]
        dy == p[2] * q[3] - q[2] * p[3]
    IN  dx * dx + dy * dy

\* mutant of SortsBefore: equal distances sort by decreasing index
SortsBefore_TiesLast(x, X, i, j) ==
    LET di == Dist2Num(x, X[i]) * X[j][3] * X[j][3]
        dj == Dist2Num(x, X[j]) * X[i][3] * X[i][3]
    IN  di < dj \/ (di = dj /\ i > j)

\* whether X[i] sorts before X[j] in sorted(dist, key=distance to x): by
\* distance, and by index among equal distances (the sort is stable)
SortsBefore(x, X, i, j) ==
    LET di == Dist2Num(x, X[i]) * X[j][3] * X[j][3]
        dj == Dist2Num(x, X[j]) * X[i][3] * X[i][3]
    IN  di < dj \/ (di = dj /\ i < j)

\* dist[0] or dist[1] does not exist (no index is 0)
IndexError == <<0, 0>>

\* mutant of Get2NN: the nearest point is returned twice
Get2NN_NearestTwice(x, X) ==
    IF Len(X) < 2 THEN IndexError
    ELSE LET first == CHOOSE i \in 1..Len(X) :
                          \A j \in 1..Len(X) \ {i} : SortsBefore(x, X, i, j)
         IN  <<first, first>>

\* get_2NN(x, X): the indices in X of the two points nearest to x; dist[0]
\* and dist[1] are both read, so fewer than two points raise IndexError
Get2NN(x, X) ==
    IF Len(X) < 2 THEN IndexError
    ELSE LET first == CHOOSE i \in 1..Len(X) :
                          \A j \in 1..Len(X) \ {i} : SortsBefore(x, X, i, j)
             second == CHOOSE i \in 1..Len(X) \ {first} :
                          \A j \in 1..Len(X) \ {first, i} : SortsBefore(x, X, i, j)
         IN  <<first, second>>

Cross(p, q, r) ==
    (q[1] - p[1]) * (r[2] - p[2]) - (q[2] - p[2]) * (r[1] - p[1])

\* r lies strictly inside the segment pq
StrictlyBetween(p, q, r) ==
    /\ r # p /\ r # q
    /\ Cross(p, q, r) = 0
    /\ (r[1] - p[1]) * (q[1] - p[1]) + (r[2] - p[2]) * (q[2] - p[2]) > 0
    /\ (r[1] - q[1]) * (p[1] - q[1]) + (r[2] - q[2]) * (p[2] - q[2]) > 0

\* the directed boundary segments of the convex hull of the point set P,
\* counter-clockwise
HullEdges(P) ==
    {e \in P \X P :
        /\ e[1] # e[2]
        /\ \A r \in P : Cross(e[1], e[2], r) >= 0
        /\ \A r \in P : ~StrictlyBetween(e[1], e[2], r)}

\* twice spatial.ConvexHull(points).volume (the area, in 2-D), by the
\* shoelace formula; 0 stands for QhullError: fewer than 3 distinct points,
\* or all points on one line
HullArea2(P) ==
    LET E == HullEdges(P)
    IN  SumOver(E, [e \in E |-> e[1][1] * e[2][2] - e[2][1] * e[1][2]])

---------------------------------------------------------------------------
(* Inputs of the constructor                                               *)

\* instance positions: the spec's example A..E, then further points
BasePoints ==
    << <<0, 0>>, <<1, 0>>, <<0, 1>>, <<5, 5>>, <<5, 6>>, <<6, 5>>,
       <<1, 1>>, <<6, 6>>, <<2, 0>>, <<0, 2>>, <<4, 5>>, <<5, 4>> >>

\* n instances on one line
LinePoints(n) == [i \in 1..n |-> <<i - 1, 0>>]

\* the facades of the model: the example with 0, 2 and 5 instances, a
\* small and a large prefix of the points, and a small and a large line
Layouts ==
    {SubSeq(BasePoints, 1, n) : n \in {0, 2, 5, SmallInsts, MaxInsts}}
        \cup {LinePoints(SmallInsts - 1), LinePoints(MaxInsts - 1)}

\* costs lo on every third instance (1, 4, 7, ...) and hi on the others
StepCosts(n, lo, hi) == [i \in 1..n |-> IF i % 3 = 1 THEN lo ELSE hi]

\* cost tables: configuration 1 has step costs, configuration 2 costs
\* MaxCost everywhere.  On a large facade configuration 1 costs MaxCost
\* outside every third instance and MaxCost is the cutoff (a timeout), so
\* that at most a third of the instances are good
CostTables(n) ==
    {[c \in Configs |-> IF c = 1 THEN StepCosts(n, p[1], p[2])
                        ELSE StepCosts(n, MaxCost, MaxCost)] :
        p \in IF n <= SmallInsts
              THEN {<<1, 1>>, <<1, MaxCost>>, <<MaxCost, 1>>}
              ELSE {<<1, MaxCost>>, <<MaxCost, MaxCost>>}}

Cutoffs(n) == IF n <= SmallInsts THEN {1, Inf} ELSE {MaxCost}

\* the epsilon values label_instances is called with (in hundredths)
Epsilons == {0, DefaultEpsilon}

\* thresholds <<num, den>> of footprint()
DensityThresholds == {<<0, 1>>, <<3, 1>>}
PurityThresholds == {<<0, 1>>, <<1, 2>>, <<1, 1>>}

EmptyDict == [x \in {} |-> 0]

---------------------------------------------------------------------------
(* The Performance Labeler                                                 *)

\* get_cost_dict_for_config(self.rh, algorithm)
GetCostDictForConfig(c) == rh[c]

\* mutant of CacheMisses: every call fetches
CacheMisses_Always(cache, cs) == cs

\* if not algorithm in self.algo_performance: the configurations of cs that
\* get_performance fetches from the cost source
CacheMisses(cache, cs) == cs \ DOMAIN cache

\* the cache after get_performance(c, .) was called for every c of cs
PerformanceCacheAfter(cache, cs) ==
    [c \in (DOMAIN cache) \cup cs |->
        IF c \in CacheMisses(cache, cs) THEN GetCostDictForConfig(c)
        ELSE cache[c]]

\* mutant of RatioAtLeast: the comparison is turned round
RatioAtLeast_Reversed(best, performance, epsilon) ==
    best * 100 <= epsilon * performance

\* mutant of RatioAtLeast: the ratio must exceed epsilon
RatioAtLeast_Strict(best, performance, epsilon) ==
    best * 100 > epsilon * performance

\* best_performance/performance >= epsilon, for performance # 0
RatioAtLeast(best, performance, epsilon) ==
    best * 100 >= epsilon * performance

\* performance >= self.cutoff
AtLeastCutoff(performance, c) == performance >= c

\* min(performances)
MinOf(S) == CHOOSE m \in S : \A x \in S : m <= x

\* mutant of LabelOf: the ratio must exceed epsilon
LabelOf_StrictRatio(performance, best_performance, epsilon, c) ==
    IF \/ performance = 0
       \/ /\ best_performance * 100 > epsilon * performance
          /\ ~AtLeastCutoff(performance, c)
    THEN 1 ELSE 0

\* mutant of LabelOf: the cutoff also applies to a performance of 0
LabelOf_CutoffFirst(performance, best_performance, epsilon, c) ==
    IF /\ ~AtLeastCutoff(performance, c)
       /\ \/ performance = 0
          \/ RatioAtLeast(best_performance, performance, epsilon)
    THEN 1 ELSE 0

\* the label of one (configuration, instance) pair
LabelOf(performance, best_performance, epsilon, c) ==
    IF \/ performance = 0
       \/ /\ RatioAtLeast(best_performance, performance, epsilon)
          /\ ~AtLeastCutoff(performance, c)
    THEN 1 ELSE 0

\* no exception
NoExc == [type |-> "none", config |-> 0, instance |-> 0]

\* the KeyError of self.algo_performance[algorithm][instance]: it carries
\* the missing key, the instance, and nothing of the configuration
KeyError(instance) == [type |-> "KeyError", config |-> 0, instance |-> instance]

\* the (position, configuration) pairs whose cost the dictionaries of cache
\* lack
MissingPairs(cache) ==
    {m \in (1..Len(insts)) \X Configs : insts[m[1]] \notin DOMAIN cache[m[2]]}

\* the first of them in the order label_instances asks for costs: instance
\* by instance, and for each instance configuration by configuration
FirstMissing(cache) ==
    CHOOSE m \in MissingPairs(cache) :
        \A m2 \in MissingPairs(cache) :
            m[1] < m2[1] \/ (m[1] = m2[1] /\ m[2] <= m2[2])

\* self.algo_labels when label_instances(epsilon) is stopped by a KeyError
\* at position k: the instances before k are labelled
LabelsBefore(cache, epsilon, k) ==
    [c \in Configs |->
        [i \in {insts[j] : j \in 1..(k - 1)} |->
            LabelOf(cache[c][i],
                    MinOf({cache[b][i] : b \in Configs}),
                    epsilon, cutoff)]]

\* self.algo_labels after label_instances(epsilon), given the filled cache
LabelsOf(cache, epsilon) ==
    [c \in Configs |->
        [i \in Range(insts) |->
            LabelOf(cache[c][i],
                    MinOf({cache[b][i] : b \in Configs}),
                    epsilon, cutoff)]]

\* the effect of label_instances(epsilon) on the object: all labels, or,
\* when a cost is missing, the labels before the KeyError of line 84
DoLabelInstances(epsilon) ==
    LET full == PerformanceCacheAfter(algo_performance, Configs)
    IN  /\ last_epsilon' = epsilon
        /\ IF insts = <<>>
           THEN /\ algo_labels' = [c \in Configs |-> EmptyDict]
                /\ exc' = NoExc
                /\ UNCHANGED <<algo_performance, rh_queries>>
           ELSE IF MissingPairs(full) = {}
           THEN /\ algo_performance' = full
                /\ rh_queries' = [c \in Configs |->
                       IF c \in CacheMisses(algo_performance, Configs)
                       THEN rh_queries[c] + 1 ELSE rh_queries[c]]
                /\ algo_labels' = LabelsOf(full, epsilon)
                /\ exc' = NoExc
           ELSE LET m       == FirstMissing(full)
                    queried == IF m[1] = 1 THEN {c \in Configs : c <= m[2]}
                               ELSE Configs
                    cache   == PerformanceCacheAfter(algo_performance, queried)
                IN  /\ algo_performance' = cache
                    /\ rh_queries' = [c \in Configs |->
                           IF c \in CacheMisses(algo_performance, queried)
                           THEN rh_queries[c] + 1 ELSE rh_queries[c]]
                    /\ algo_labels' = LabelsBefore(cache, epsilon, m[1])
                    /\ exc' = KeyError(insts[m[1]])

---------------------------------------------------------------------------
(* The object                                                              *)

NoCall ==
    /\ a = 0
    /\ density_threshold = <<0, 1>>
    /\ purity_threshold = <<0, 1>>
    /\ good = <<>>
    /\ not_in_region = <<>>
    /\ rand_good = 0
    /\ regions = <<>>
    /\ centroids = <<>>
    /\ idx = 0
    /\ stop = FALSE
    /\ count_exceptions = 0
    /\ area2 = 0
    /\ n_grow = 0
    /\ n_commits = 0
    /\ n_regions_at_merge = 0

\* clusters = None, and no get_clusters or plot_points_per_cluster running
NoClustering ==
    /\ clusters = <<>>
    /\ cluster_dict = EmptyDict
    /\ n_clusters = 0
    /\ best_score = 0
    /\ best_n_clusters = 0
    /\ scores = EmptyDict
    /\ plot_i = 0
    /\ plot_log = <<>>

\* the arguments of the constructor, before it runs
InitWith(layouts, tables, cutoffs) ==
    /\ features_2d \in layouts
    /\ insts = [i \in 1..Len(features_2d) |-> i]
    /\ rh \in tables[Len(features_2d)]
    /\ cutoff \in cutoffs[Len(features_2d)]
    /\ algo_performance = EmptyDict
    /\ algo_labels = EmptyDict
    /\ rh_queries = [c \in Configs |-> 0]
    /\ last_epsilon = -1
    /\ exc = NoExc
    /\ pc = "new"
    /\ NoCall
    /\ NoClustering

Init ==
    InitWith(Layouts, [n \in 0..MaxInsts |-> CostTables(n)],
             [n \in 0..MaxInsts |-> Cutoffs(n)])

\* mutant of Construct: the constructor leaves the labelling to later
Construct_Lazy ==
    /\ pc = "new"
    /\ pc' = "idle"
    /\ UNCHANGED <<clustervars, objvars, callvars>>

\* AlgorithmFootprint.__init__: the object exists when label_instances
\* returned, and the constructor failed when it raised
Construct ==
    /\ pc = "new"
    /\ DoLabelInstances(DefaultEpsilon)
    /\ pc' = IF exc' = NoExc THEN "idle" ELSE "failed"
    /\ UNCHANGED <<clustervars, insts, features_2d, rh, cutoff, callvars>>

\* mutant of LabelInstances: a label that is 1 is kept, the others are
\* computed
LabelInstances_Reuse(epsilon) ==
    /\ pc = "idle"
    /\ algo_labels' =
           [c \in Configs |->
               [i \in Range(insts) |->
                   IF algo_labels[c][i] = 1 THEN 1
                   ELSE LabelsOf(algo_performance, epsilon)[c][i]]]
    /\ last_epsilon' = epsilon
    /\ UNCHANGED <<clustervars, insts, features_2d, rh, cutoff, algo_performance,
                   rh_queries, exc, pc, callvars>>

\* AlgorithmFootprint.label_instances(epsilon)
LabelInstances(epsilon) ==
    /\ pc = "idle"
    /\ DoLabelInstances(epsilon)
    /\ UNCHANGED <<clustervars, insts, features_2d, rh, cutoff, pc, callvars>>

\* AlgorithmFootprint.get_performance(algorithm, instance)
GetPerformance(algorithm, instance) ==
    /\ pc = "idle"
    /\ instance \in Range(insts)
    /\ algo_performance' = PerformanceCacheAfter(algo_performance, {algorithm})
    /\ rh_queries' = [rh_queries EXCEPT ![algorithm] =
           IF algorithm \in CacheMisses(algo_performance, {algorithm})
           THEN @ + 1 ELSE @]
    /\ UNCHANGED <<clustervars, insts, features_2d, rh, cutoff, algo_labels, last_epsilon,
                   exc, pc, callvars>>

---------------------------------------------------------------------------
(* footprint(a, density_threshold, purity_threshold)                       *)

\* inst_feat2d[i], as a rational point
Feat(i) == <<features_2d[i][1], features_2d[i][2], 1>>

\* np.array([inst_feat2d[i] for i in reg]), as a point set
PointsOf(reg) == {features_2d[i] : i \in reg}

\* len([i for i in reg if i in good])
GoodCount(reg) == Cardinality(reg \cap Range(good))

\* density > density_threshold, with density = len(new_reg)/hull.volume
DensityAbove(new_reg, hull2, threshold) ==
    2 * Cardinality(new_reg) * threshold[2] > threshold[1] * hull2

\* purity > purity_threshold, with purity the good instances of reg plus
\* those of nearest_reg, over len(new_reg)
PurityAbove(reg, nearest_reg, new_reg, threshold) ==
    (GoodCount(reg) + GoodCount(nearest_reg)) * threshold[2]
        > threshold[1] * Cardinality(new_reg)

\* mutant of TooFewGood: two good instances are enough
TooFewGood_LessThan2(g) == Len(g) < 2

\* mutant of TooFewGood: three good instances are too few
TooFewGood_AtMost3(g) == Len(g) <= 3

\* if len(good) < 3: return 0
TooFewGood(g) == Len(g) < 3

\* mutant of FootprintStart: the call relabels with the default epsilon
FootprintStart_Relabels(conf, dt, pt) ==
    LET g == SelectSeq(insts, LAMBDA i : algo_labels[conf][i] = 1)
    IN  /\ pc = "idle"
        /\ a' = conf
        /\ density_threshold' = dt
        /\ purity_threshold' = pt
        /\ good' = g
        /\ not_in_region' = insts
        /\ regions' = <<>>
        /\ count_exceptions' = 0
        /\ IF TooFewGood(g)
           THEN pc' = "done" /\ area2' = 0
           ELSE pc' = "grow" /\ area2' = area2
        /\ DoLabelInstances(DefaultEpsilon)
        /\ UNCHANGED <<clustervars, insts, features_2d, rh, cutoff, rand_good, centroids,
                       idx, stop, n_grow, n_commits, n_regions_at_merge>>

\* Initialise stage, and the early return for fewer than 3 good instances
FootprintStart(conf, dt, pt) ==
    LET g == SelectSeq(insts, LAMBDA i : algo_labels[conf][i] = 1)
    IN  /\ pc = "idle"
        /\ a' = conf
        /\ density_threshold' = dt
        /\ purity_threshold' = pt
        /\ good' = g
        /\ not_in_region' = insts
        /\ regions' = <<>>
        /\ count_exceptions' = 0
        /\ IF TooFewGood(g)
           THEN pc' = "done" /\ area2' = 0
           ELSE pc' = "grow" /\ area2' = area2
        /\ UNCHANGED <<clustervars, objvars, rand_good, centroids, idx, stop, n_grow,
                       n_commits, n_regions_at_merge>>

\* one iteration of the growing loop: the triangle of the seed p, drawn by
\* rng.choice(good), and its two nearest unassigned neighbours
GrowStep(p) ==
    LET pool == ListRemove(not_in_region, p)
        nn   == Get2NN(Feat(p), [k \in 1..Len(pool) |-> Feat(pool[k])])
    IN  /\ pc = "grow"
        /\ Len(not_in_region) >= 3
        /\ p \in Range(good)
        /\ rand_good' = p
        /\ IF nn = IndexError
           THEN /\ pc' = "raised"
                /\ not_in_region' = pool
                /\ UNCHANGED <<regions, n_grow>>
           ELSE LET triangle == <<p, pool[nn[1]], pool[nn[2]]>>
                    centroid == MeanOf(Range(triangle), features_2d)
                IN  /\ regions' = DictSet(regions, centroid, Range(triangle))
                    /\ not_in_region' = ListRemoveAll(pool, triangle)
                    /\ n_grow' = n_grow + 1
                    /\ pc' = pc
        /\ UNCHANGED <<clustervars, objvars, a, density_threshold, purity_threshold, good,
                       centroids, idx, stop, count_exceptions, area2,
                       n_commits, n_regions_at_merge>>

\* the growing loop ends: fewer than 3 instances are unassigned
GrowEnd ==
    /\ pc = "grow"
    /\ Len(not_in_region) < 3
    /\ pc' = "merge"
    /\ stop' = FALSE
    /\ rand_good' = 0      \* not read after the loop
    /\ n_regions_at_merge' = Len(regions)
    /\ UNCHANGED <<clustervars, objvars, a, density_threshold, purity_threshold, good,
                   not_in_region, regions, centroids, idx, count_exceptions,
                   area2, n_grow, n_commits>>

\* mutant of MergePassStart: the keys are listed and shuffled once, before
\* the first pass
MergePassStart_StaleOrder(order) ==
    /\ pc = "merge"
    /\ order \in Shuffles(Keys(regions))
    /\ centroids' = IF centroids = <<>> THEN order ELSE centroids
    /\ idx' = 1
    /\ stop' = TRUE
    /\ pc' = "scan"
    /\ UNCHANGED <<clustervars, objvars, a, density_threshold,
                   purity_threshold, good, not_in_region, rand_good, regions,
                   count_exceptions, area2, n_grow, n_commits,
                   n_regions_at_merge>>

\* a pass of the merge loop begins: stop = True, the keys are shuffled
MergePassStart(order) ==
    /\ pc = "merge"
    /\ order \in Shuffles(Keys(regions))
    /\ centroids' = order
    /\ idx' = 1
    /\ stop' = TRUE
    /\ pc' = "scan"
    /\ UNCHANGED <<clustervars, objvars, a, density_threshold, purity_threshold, good,
                   not_in_region, rand_good, regions, count_exceptions, area2,
                   n_grow, n_commits, n_regions_at_merge>>

\* the centroids other than cent, in the order of the dictionary
RemainingCentroids(cent) == SelectSeq(Keys(regions), LAMBDA c : c # cent)

\* mutant of MergeVisit: a hull failure is not counted and ends the pass
MergeVisit_FailureEndsPass ==
    LET cent      == centroids[idx]
        reg       == DictGet(regions, cent)
        remaining == RemainingCentroids(cent)
        nn        == Get2NN(cent, remaining)
    IN  /\ pc = "scan"
        /\ idx <= Len(centroids)
        /\ IF nn = IndexError
           THEN /\ pc' = "raised"
                /\ UNCHANGED <<regions, idx, stop, count_exceptions, n_commits>>
           ELSE LET nearest_cent == remaining[nn[1]]
                    nearest_reg  == DictGet(regions, nearest_cent)
                    new_reg      == reg \cup nearest_reg
                    hull2        == HullArea2(PointsOf(new_reg))
                IN  IF hull2 = 0
                    THEN /\ idx' = Len(centroids) + 1
                         /\ UNCHANGED <<pc, regions, stop, count_exceptions,
                                        n_commits>>
                    ELSE IF /\ DensityAbove(new_reg, hull2, density_threshold)
                            /\ PurityAbove(reg, nearest_reg, new_reg,
                                           purity_threshold)
                    THEN \* commit the merge and break
                         /\ regions' =
                                DictSet(DictPop(DictPop(regions, cent),
                                                nearest_cent),
                                        MeanOf(new_reg, features_2d), new_reg)
                         /\ stop' = FALSE
                         /\ n_commits' = n_commits + 1
                         /\ pc' = "merge"
                         /\ UNCHANGED <<idx, count_exceptions>>
                    ELSE /\ idx' = idx + 1
                         /\ UNCHANGED <<pc, regions, stop, count_exceptions,
                                        n_commits>>
        /\ UNCHANGED <<clustervars, objvars, a, density_threshold, purity_threshold, good,
                       not_in_region, rand_good, centroids, area2, n_grow,
                       n_regions_at_merge>>

\* one iteration of the for loop over the shuffled centroids
MergeVisit ==
    LET cent      == centroids[idx]
        reg       == DictGet(regions, cent)
        remaining == RemainingCentroids(cent)
        nn        == Get2NN(cent, remaining)
    IN  /\ pc = "scan"
        /\ idx <= Len(centroids)
        /\ IF nn = IndexError
           THEN /\ pc' = "raised"
                /\ UNCHANGED <<regions, idx, stop, count_exceptions, n_commits>>
           ELSE LET nearest_cent == remaining[nn[1]]
                    nearest_reg  == DictGet(regions, nearest_cent)
                    new_reg      == reg \cup nearest_reg
                    hull2        == HullArea2(PointsOf(new_reg))
                IN  IF hull2 = 0
                    THEN \* QhullError: continue
                         /\ count_exceptions' = count_exceptions + 1
                         /\ idx' = idx + 1
                         /\ UNCHANGED <<pc, regions, stop, n_commits>>
                    ELSE IF /\ DensityAbove(new_reg, hull2, density_threshold)
                            /\ PurityAbove(reg, nearest_reg, new_reg,
                                           purity_threshold)
                    THEN \* commit the merge and break
                         /\ regions' =
                                DictSet(DictPop(DictPop(regions, cent),
                                                nearest_cent),
                                        MeanOf(new_reg, features_2d), new_reg)
                         /\ stop' = FALSE
                         /\ n_commits' = n_commits + 1
                         /\ pc' = "merge"
                         /\ UNCHANGED <<idx, count_exceptions>>
                    ELSE /\ idx' = idx + 1
                         /\ UNCHANGED <<pc, regions, stop, count_exceptions,
                                        n_commits>>
        /\ UNCHANGED <<clustervars, objvars, a, density_threshold, purity_threshold, good,
                       not_in_region, rand_good, centroids, area2, n_grow,
                       n_regions_at_merge>>

\* the for loop ends without a commit: stop is still True, the while loop
\* ends
MergePassEnd ==
    /\ pc = "scan"
    /\ idx > Len(centroids)
    /\ pc' = "area"
    /\ UNCHANGED <<clustervars, objvars, callvars>>

\* the regions whose hull cannot be built
Degenerate(d) == {k \in 1..Len(d) : HullArea2(PointsOf(d[k].members)) = 0}

\* the sum of the hull areas of the final regions, and the return
AreaSum ==
    /\ pc = "area"
    /\ area2' = SumOver(1..Len(regions),
                        [k \in 1..Len(regions) |->
                            HullArea2(PointsOf(regions[k].members))])
    /\ count_exceptions' = count_exceptions + Cardinality(Degenerate(regions))
    /\ pc' = "done"
    /\ UNCHANGED <<clustervars, objvars, a, density_threshold, purity_threshold, good,
                   not_in_region, rand_good, regions, centroids, idx, stop,
                   n_grow, n_commits, n_regions_at_merge>>

\* the call is over (returned or raised): its locals are gone
Return ==
    /\ pc \in {"done", "raised"}
    /\ pc' = "idle"
    /\ a' = 0
    /\ density_threshold' = <<0, 1>>
    /\ purity_threshold' = <<0, 1>>
    /\ good' = <<>>
    /\ not_in_region' = <<>>
    /\ rand_good' = 0
    /\ regions' = <<>>
    /\ centroids' = <<>>
    /\ idx' = 0
    /\ stop' = FALSE
    /\ count_exceptions' = 0
    /\ area2' = 0
    /\ n_grow' = 0
    /\ n_commits' = 0
    /\ n_regions_at_merge' = 0
    /\ UNCHANGED <<clustervars, objvars>>

---------------------------------------------------------------------------
(* Specification                                                           *)

Next ==
    \/ Construct
    \/ \E e \in Epsilons : LabelInstances(e)
    \/ \E c \in Configs, i \in Range(insts) : GetPerformance(c, i)
    \/ \E c \in Configs, dt \in DensityThresholds, pt \in PurityThresholds :
           FootprintStart(c, dt, pt)
    \/ \E p \in Range(good) : GrowStep(p)
    \/ GrowEnd
    \/ \E order \in Shuffles(Keys(regions)) : MergePassStart(order)
    \/ MergeVisit
    \/ MergePassEnd
    \/ AreaSum
    \/ Return

Spec == Init /\ [][Next]_vars

---------------------------------------------------------------------------
(* The Performance Labeler alone: facades of one or two instances with     *)
(* every cost table, relabelled with every epsilon                         *)

\* number of instances of the facades of SpecLabel
LabelInsts == 2

\* costs: 0, 1, 2, and 19 and 20, whose ratio is the default epsilon
LabelCosts == {0, 1, 2, 19, 20}

LabelLayouts == {SubSeq(BasePoints, 1, n) : n \in 1..LabelInsts}

LabelCostTables(n) == [Configs -> [1..n -> LabelCosts]]

LabelCutoffs(n) == {-1, 0, 1, 2, 20, Inf}

LabelEpsilons == {0, 50, DefaultEpsilon, 96, 98, 100}

InitLabel ==
    InitWith(LabelLayouts, [n \in 1..LabelInsts |-> LabelCostTables(n)],
             [n \in 1..LabelInsts |-> LabelCutoffs(n)])

NextLabel ==
    \/ Construct
    \/ \E e \in LabelEpsilons : LabelInstances(e)
    \/ \E c \in Configs, i \in Range(insts) : GetPerformance(c, i)

SpecLabel == InitLabel /\ [][NextLabel]_vars

---------------------------------------------------------------------------
(* Cost sources with missing entries: facades of up to MissingInsts        *)
(* instances whose cost dictionaries cover any subset of the instances     *)

\* number of instances of the facades of SpecMissing
MissingInsts == 2

MissingLayouts == {SubSeq(BasePoints, 1, n) : n \in 1..MissingInsts}

\* every cost dictionary over a subset of the instances, per configuration
PartialCostTables(n) ==
    [Configs -> UNION {[D -> 1..MaxCost] : D \in SUBSET (1..n)}]

InitMissing ==
    InitWith(MissingLayouts, [n \in 1..MissingInsts |-> PartialCostTables(n)],
             [n \in 1..MissingInsts |-> {MaxCost, Inf}])

NextMissing ==
    \/ Construct
    \/ \E e \in Epsilons : LabelInstances(e)
    \/ \E c \in Configs, i \in Range(insts) : GetPerformance(c, i)

SpecMissing == InitMissing /\ [][NextMissing]_vars

---------------------------------------------------------------------------
(* The Instance Clusterer: get_clusters(features_2d), called by the        *)
(* constructor before the labelling.  KMeans and silhouette_score are      *)
(* library calls: their results are inputs, and they raise ValueError on   *)
(* the arguments they reject.  The specifications above start where the    *)
(* constructor has passed this call and do not follow it: neither          *)
(* footprint nor label_instances reads its result.                         *)

\* min_clusters, max_clusters = 2, 12
MinClusters == 2
MaxClusters == 12

\* number of instances of the largest facade of SpecCluster
ClusterInsts == 12

\* facades of SpecCluster: fewer instances than min_clusters, fewer than
\* the largest candidate count, and enough for every candidate count
ClusterSizes == {1, 5, ClusterInsts - 1, ClusterInsts}

\* silhouette scores, in hundredths; the mean silhouette lies in (-1, 1]
Scores == {20, 70}

\* KMeans(n_clusters=k).fit_predict on n >= k distinct points: a label in
\* 0..k-1 for each point, every label used
FitPredict(n, k) ==
    {[i \in 1..n |-> (i - 1) % k], [i \in 1..n |-> (n - i) % k]}

\* silhouette_score accepts 2 to n_samples - 1 distinct labels
ValidNumberOfLabels(y_pred) ==
    /\ Cardinality(Range(y_pred)) >= 2
    /\ Cardinality(Range(y_pred)) <= Len(y_pred) - 1

ValueError == [type |-> "ValueError", config |-> 0, instance |-> 0]
TypeError == [type |-> "TypeError", config |-> 0, instance |-> 0]

\* cluster_dict = {n:[] for n in range(k)}, then
\* cluster_dict[c].append(self.insts[i]) for i, c in enumerate(cl)
ClusterDictOf(k, cl) ==
    [c \in 0..(k - 1) |->
        LET at == SelectSeq([j \in 1..Len(cl) |-> j], LAMBDA j : cl[j] = c)
        IN  [m \in 1..Len(at) |-> insts[at[m]]]]

\* costs of the facades of SpecCluster: the second configuration is within
\* 0.95 of the best on the odd instances (20 against 19), or both cost 1
ClusterCostTables(n) ==
    {[c \in Configs |-> [i \in 1..n |-> IF c = 2 /\ i % 2 = 1 THEN 20 ELSE 19]],
     [c \in Configs |-> [i \in 1..n |-> 1]]}

\* the constructor has reached self.get_clusters(self.features_2d)
InitCluster ==
    /\ features_2d \in {LinePoints(n) : n \in ClusterSizes}
    /\ insts = [i \in 1..Len(features_2d) |-> i]
    /\ rh \in ClusterCostTables(Len(features_2d))
    /\ cutoff = Inf
    /\ algo_performance = EmptyDict
    /\ algo_labels = EmptyDict
    /\ rh_queries = [c \in Configs |-> 0]
    /\ last_epsilon = -1
    /\ exc = NoExc
    /\ pc = "init"
    /\ NoCall
    /\ NoClustering

\* best_score, best_n_clusters = -1, -1; clusters = None
GetClustersStart ==
    /\ pc = "init"
    /\ pc' = "clustering"
    /\ n_clusters' = MinClusters
    /\ best_score' = -100
    /\ best_n_clusters' = -1
    /\ clusters' = <<>>
    /\ scores' = EmptyDict
    /\ UNCHANGED <<objvars, callvars, cluster_dict, plot_i, plot_log>>

\* the constructor fails with the ValueError of the library
ClusterRaise ==
    /\ pc' = "failed"
    /\ exc' = ValueError
    /\ UNCHANGED <<insts, features_2d, rh, cutoff, algo_performance,
                   algo_labels, rh_queries, last_epsilon, callvars,
                   clustervars>>

\* one iteration of for n_clusters in range(min_clusters, max_clusters)
ClusterTry ==
    /\ pc = "clustering"
    /\ n_clusters < MaxClusters
    /\ IF Len(insts) < n_clusters
       THEN ClusterRaise        \* KMeans: n_samples should be >= n_clusters
       ELSE \E y_pred \in FitPredict(Len(insts), n_clusters) :
                IF ~ValidNumberOfLabels(y_pred)
                THEN ClusterRaise       \* silhouette_score
                ELSE \E score \in Scores :
                         /\ scores' = [k \in DOMAIN scores \cup {n_clusters} |->
                                           IF k = n_clusters THEN score
                                           ELSE scores[k]]
                         /\ IF score > best_score
                            THEN /\ best_n_clusters' = n_clusters
                                 /\ best_score' = score
                                 /\ clusters' = y_pred
                            ELSE UNCHANGED <<best_n_clusters, best_score,
                                             clusters>>
                         /\ n_clusters' = n_clusters + 1
                         /\ UNCHANGED <<objvars, pc, callvars, cluster_dict,
                                        plot_i, plot_log>>

\* the loop is over: cluster_dict is built and get_clusters returns; its
\* locals are gone
GetClustersReturn ==
    /\ pc = "clustering"
    /\ n_clusters = MaxClusters
    /\ IF clusters = <<>>
       THEN \* enumerate(None)
            /\ pc' = "failed"
            /\ exc' = TypeError
            /\ UNCHANGED <<insts, features_2d, rh, cutoff, algo_performance,
                           algo_labels, rh_queries, last_epsilon, callvars,
                           clustervars>>
       ELSE /\ cluster_dict' = ClusterDictOf(best_n_clusters, clusters)
            /\ pc' = "new"
            /\ n_clusters' = 0
            /\ best_score' = 0
            /\ best_n_clusters' = 0
            /\ scores' = EmptyDict
            /\ UNCHANGED <<objvars, callvars, clusters, plot_i, plot_log>>

---------------------------------------------------------------------------
(* plot_points_per_cluster(), as far as it changes the object: its calls   *)
(* of label_instances                                                      *)

\* np.hstack([np.arange(0.0, 1.0, .95), np.arange(0.96, 1.0, 0.02)]), in
\* hundredths.  arange has ceil((stop - start)/step) elements, computed in
\* double precision: ceil(1.0526...) = 2 for the first, and for the second
\* ceil((1.0 - 0.96)/0.02) = ceil(2.0000000000000018) = 3, so that 1.0 is
\* among the values
PlotEpsilons == <<0, 95, 96, 98, 100>>

PlotPointsStart ==
    /\ pc = "idle"
    /\ pc' = "plot_eps"
    /\ plot_i' = 1
    /\ plot_log' = <<>>
    /\ UNCHANGED <<objvars, callvars, clusters, cluster_dict, n_clusters,
                   best_score, best_n_clusters, scores>>

\* one iteration of for e in np.hstack(...): self.label_instances(e)
PlotEpsilon ==
    /\ pc = "plot_eps"
    /\ DoLabelInstances(PlotEpsilons[plot_i])
    /\ plot_log' = Append(plot_log, PlotEpsilons[plot_i])
    /\ IF exc' # NoExc THEN pc' = "idle" /\ plot_i' = 0
       ELSE IF plot_i < Len(PlotEpsilons) THEN pc' = pc /\ plot_i' = plot_i + 1
       ELSE pc' = "plot_clusters" /\ plot_i' = 0
    /\ UNCHANGED <<insts, features_2d, rh, cutoff, callvars, clusters,
                   cluster_dict, n_clusters, best_score, best_n_clusters,
                   scores>>

\* one iteration of for c in self.cluster_dict.keys():
\* self.label_instances()
PlotCluster ==
    /\ pc = "plot_clusters"
    /\ plot_i < Cardinality(DOMAIN cluster_dict)
    /\ DoLabelInstances(DefaultEpsilon)
    /\ plot_log' = Append(plot_log, DefaultEpsilon)
    /\ IF exc' # NoExc THEN pc' = "idle" /\ plot_i' = 0
       ELSE pc' = pc /\ plot_i' = plot_i + 1
    /\ UNCHANGED <<insts, features_2d, rh, cutoff, callvars, clusters,
                   cluster_dict, n_clusters, best_score, best_n_clusters,
                   scores>>

\* mutant of PlotReturn: no labelling after the loop over the epsilons
PlotReturn_LastEpsilon ==
    /\ pc = "plot_clusters"
    /\ pc' = "idle"
    /\ plot_i' = 0
    /\ UNCHANGED <<objvars, callvars, clusters, cluster_dict, n_clusters,
                   best_score, best_n_clusters, scores, plot_log>>

\* the final self.label_instances() and the return of the output paths
PlotReturn ==
    /\ pc = "plot_clusters"
    /\ plot_i = Cardinality(DOMAIN cluster_dict)
    /\ DoLabelInstances(DefaultEpsilon)
    /\ plot_log' = Append(plot_log, DefaultEpsilon)
    /\ pc' = "idle"
    /\ plot_i' = 0
    /\ UNCHANGED <<insts, features_2d, rh, cutoff, callvars, clusters,
                   cluster_dict, n_clusters, best_score, best_n_clusters,
                   scores>>

NextCluster ==
    \/ GetClustersStart
    \/ ClusterTry
    \/ GetClustersReturn
    \/ Construct
    \/ \E e \in Epsilons : LabelInstances(e)
    \/ PlotPointsStart
    \/ PlotEpsilon
    \/ PlotCluster
    \/ PlotReturn

SpecCluster == InitCluster /\ [][NextCluster]_vars

---------------------------------------------------------------------------
(* Properties                                                              *)

\* the instances labelled 1 for configuration c
LabelledGood(c) == {i \in Range(insts) : algo_labels[c][i] = 1}

\* a footprint() call is running or has just ended
InCall == pc \in {"grow", "merge", "scan", "area", "done", "raised"}

\* the growing loop is over
AfterGrowing == pc \in {"merge", "scan", "area", "done", "raised"}

\* min over the compared configurations of the cost on instance i
Best(i) == MinOf({rh[c][i] : c \in Configs})

\* C1: a configuration with fewer than 3 instances labelled 1 gets the
\* result 0 at once: no growing iteration, no merge pass, no region.
C1_FewGoodReturnsZero ==
    (InCall /\ Cardinality(LabelledGood(a)) < 3) =>
        /\ pc = "done"
        /\ area2 = 0
        /\ regions = <<>>
        /\ centroids = <<>>
        /\ n_grow = 0
        /\ n_regions_at_merge = 0
        /\ not_in_region = insts

\* a call that returned for a facade of 3 or more instances, all labelled 0
C1_Witness ==
    /\ pc = "done"
    /\ Len(insts) >= 3
    /\ LabelledGood(a) = {}
    /\ area2 = 0

\* C2: after label_instances(epsilon) the label of (C, i) is 1 exactly when
\* cost(C, i) = 0, or best(i)/cost(C, i) >= epsilon and cost(C, i) < cutoff;
\* it is 0 otherwise.
C2_LabelRule ==
    pc = "idle" =>
        \A c \in Configs, i \in Range(insts) :
            /\ algo_labels[c][i] \in {0, 1}
            /\ algo_labels[c][i] = 1 <=>
                   \/ rh[c][i] = 0
                   \/ /\ Best(i) * 100 >= last_epsilon * rh[c][i]
                      /\ rh[c][i] < cutoff

\* labelled with 0.95: a cost of 20 against a best of 19 is good (the ratio
\* equals epsilon), and a cost of 2 against a best of 1 is not
C2_Witness ==
    /\ pc = "idle"
    /\ last_epsilon = DefaultEpsilon
    /\ \E c \in Configs, i \in Range(insts) :
           rh[c][i] = 20 /\ Best(i) = 19 /\ algo_labels[c][i] = 1
    /\ \E c \in Configs, i \in Range(insts) :
           rh[c][i] = 2 /\ Best(i) = 1 /\ algo_labels[c][i] = 0

\* C3: no instance is a member of two different regions, in every state of
\* a footprint computation.
C3_Disjoint ==
    \A j, k \in 1..Len(regions) :
        j # k => regions[j].members \cap regions[k].members = {}

\* C4: in the merge stage the number of regions never increases, a commit
\* lowers it, there are at most as many commits as regions at the start of
\* the stage, and the stage ends by a pass without commit (it never ends by
\* raising).
C4_MergeStage ==
    [][(pc \in {"merge", "scan"}) =>
          (/\ Len(regions') <= Len(regions)
           /\ n_commits' > n_commits => Len(regions') < Len(regions)
           /\ n_commits' <= n_regions_at_merge
           /\ pc' \in {"merge", "scan", "area"})]_vars

\* the part of C4 that holds of the code: the region count never increases,
\* a commit lowers it, and the commits number at most the initial regions
C4_RegionCountDecreases ==
    [][(pc \in {"merge", "scan"}) =>
          (/\ Len(regions') <= Len(regions)
           /\ n_commits' > n_commits => Len(regions') < Len(regions)
           /\ n_commits' <= n_regions_at_merge)]_vars

\* every final region has a degenerate hull
AllDegenerate == Cardinality(Degenerate(regions)) = Len(regions)

C6_Original ==
    [][(pc = "idle" /\ pc' = "idle" /\ last_epsilon' < last_epsilon) =>
          (\A c \in Configs, i \in Range(insts) :
              ~(algo_labels[c][i] = 0 /\ algo_labels'[c][i] = 1))]_vars

\* C6, amended: relabelling with a smaller epsilon turns no label from 1 to
\* 0 (it can only turn labels from 0 to 1, or leave them).
C6_DecreaseNeverUnlabels ==
    [][(pc = "idle" /\ pc' = "idle" /\ last_epsilon' < last_epsilon) =>
          (\A c \in Configs, i \in Range(insts) :
              ~(algo_labels[c][i] = 1 /\ algo_labels'[c][i] = 0))]_vars

\* relabelled with epsilon 0 (after the constructor's 0.95): a cost above
\* the best, which 0.95 labels 0, is labelled 1
C6_Witness ==
    /\ pc = "idle"
    /\ last_epsilon = 0
    /\ \E c \in Configs, i \in Range(insts) :
           /\ Best(i) * 100 < DefaultEpsilon * rh[c][i]
           /\ algo_labels[c][i] = 1

\* C7: a cost of 0 is labelled 1, whatever epsilon, the cutoff and the other
\* configurations' costs are.
C7_ZeroCostIsGood ==
    pc = "idle" =>
        \A c \in Configs, i \in Range(insts) :
            rh[c][i] = 0 => algo_labels[c][i] = 1

\* a cost of 0 labelled 1 under a cutoff <= 0, next to a configuration of
\* cost > 0 on the same instance
C7_Witness ==
    /\ pc = "idle"
    /\ cutoff <= 0
    /\ \E c, b \in Configs, i \in Range(insts) :
           rh[c][i] = 0 /\ rh[b][i] > 0 /\ algo_labels[c][i] = 1

\* the spec's example: A..E at (0,0),(1,0),(0,1),(5,5),(5,6), all good
ExampleRun ==
    /\ InCall
    /\ features_2d = SubSeq(BasePoints, 1, 5)
    /\ LabelledGood(a) = 1..5

\* C9 as stated: on the example the growing stage makes exactly one
\* iteration and its region is {A,B,C}, whatever seed is drawn.
C9_Original ==
    ExampleRun =>
        /\ n_grow <= 1
        /\ AfterGrowing => n_grow = 1
        /\ n_grow = 1 => Len(regions) = 1 /\ regions[1].members = {1, 2, 3}

\* C9, amended: on the example the growing stage makes exactly one
\* iteration; its region is {A,B,C} when the seed is A, B or C, {D,E,B}
\* when it is D and {D,E,C} when it is E.
C9_ExampleGrowing ==
    ExampleRun =>
        /\ n_grow <= 1
        /\ AfterGrowing => n_grow = 1
        /\ n_grow = 1 =>
               /\ Len(regions) = 1
               /\ regions[1].members \in {{1, 2, 3}, {4, 5, 2}, {4, 5, 3}}
               /\ pc = "grow" =>
                      regions[1].members =
                          CASE rand_good \in {1, 2, 3} -> {1, 2, 3}
                            [] rand_good = 4 -> {4, 5, 2}
                            [] rand_good = 5 -> {4, 5, 3}

\* the example after its one iteration, drawn with seed A
C9_Witness ==
    /\ ExampleRun
    /\ pc = "grow"
    /\ n_grow = 1
    /\ rand_good = 1
    /\ regions[1].members = {1, 2, 3}
    /\ Len(not_in_region) = 2

\* C10: when the growing stage leaves exactly one region, the merge stage
\* commits nothing and does not raise, and the call returns the hull area
\* of that region.
C10_SingleRegion ==
    (AfterGrowing /\ n_regions_at_merge = 1) =>
        /\ pc # "raised"
        /\ n_commits = 0
        /\ pc = "done" => area2 = HullArea2(PointsOf(regions[1].members))

\* the label the rule gives (c, i) under epsilon e and the facade's cutoff
RuleLabel(c, i, e) ==
    IF \/ rh[c][i] = 0
       \/ /\ Best(i) * 100 >= e * rh[c][i]
          /\ rh[c][i] < cutoff
    THEN 1 ELSE 0

\* C11 as stated: the constructor does not label; right after construction
\* the label cache and the performance cache are empty and the cost source
\* has not been queried.
C11_Original ==
    [][(pc = "new" /\ pc' = "idle") =>
          (/\ algo_labels' = EmptyDict
           /\ algo_performance' = EmptyDict
           /\ \A c \in Configs : rh_queries'[c] = 0)]_vars

\* C11, amended: the constructor runs the labeler once with epsilon 0.95:
\* right after construction every (configuration, instance) pair has the
\* label of the rule for 0.95 and, when there is an instance, the
\* performance cache holds every configuration and the cost source was
\* queried once for each; a footprint request computes no label and queries
\* nothing.
C11_ConstructorLabels ==
    [][/\ (pc = "new" /\ pc' = "idle") =>
              /\ last_epsilon' = DefaultEpsilon
              /\ DOMAIN algo_labels' = Configs
              /\ \A c \in Configs :
                     /\ DOMAIN algo_labels'[c] = Range(insts)
                     /\ \A i \in Range(insts) :
                            algo_labels'[c][i] = RuleLabel(c, i, DefaultEpsilon)
              /\ insts # <<>> =>
                     /\ DOMAIN algo_performance' = Configs
                     /\ \A c \in Configs : rh_queries'[c] = 1
       /\ (pc = "idle" /\ pc' \in {"grow", "done"}) =>
              /\ algo_labels' = algo_labels
              /\ algo_performance' = algo_performance
              /\ rh_queries' = rh_queries]_vars

\* a first footprint request on a fresh facade finds the labels of 0.95
\* in place: it is past its initialise stage with 3 or more good instances
C11_Witness ==
    /\ pc = "grow"
    /\ last_epsilon = DefaultEpsilon
    /\ \A c \in Configs : rh_queries[c] = 1
    /\ Len(good) >= 3
    /\ \A i \in Range(good) : RuleLabel(a, i, DefaultEpsilon) = 1

\* C12: the cost source is queried at most once per configuration, for the
\* configuration's whole cost dictionary; a cached cost dictionary is never removed or replaced,
\* so every later get_performance returns what the first query stored.
C12_QueriedOnce ==
    [][\A c \in Configs :
          /\ rh_queries'[c] <= 1
          /\ rh_queries'[c] = IF c \in DOMAIN algo_performance' THEN 1 ELSE 0
          /\ c \in DOMAIN algo_performance =>
                 /\ c \in DOMAIN algo_performance'
                 /\ algo_performance'[c] = algo_performance[c]
                 /\ rh_queries'[c] = rh_queries[c]
          /\ (c \in DOMAIN algo_performance' /\ c \notin DOMAIN algo_performance)
                 => algo_performance'[c] = rh[c]]_vars

\* after the constructor, a relabelling and a footprint call, every
\* configuration is cached with all instances and was queried once
C12_Witness ==
    /\ pc = "done"
    /\ last_epsilon = 0
    /\ insts # <<>>
    /\ \A c \in Configs :
           /\ c \in DOMAIN algo_performance
           /\ DOMAIN algo_performance[c] = Range(insts)
           /\ rh_queries[c] = 1

Collinear(P) == \A p1 \in P, p2 \in P, p3 \in P : Cross(p1, p2, p3) = 0

\* every region is degenerate
AllCollinear ==
    \A k \in 1..Len(regions) : Collinear(PointsOf(regions[k].members))

\* C14: a hull failure never makes footprint fail: the area computation
\* gives the sum over the final regions, 0 for a region whose hull cannot be
\* built and the hull area for every other, and a call whose regions are all
\* degenerate returns 0 and does not raise.
C14_HullFailureNeverFails ==
    /\ pc = "done" =>
           area2 = SumOver(1..Len(regions),
                      [k \in 1..Len(regions) |->
                          IF Collinear(PointsOf(regions[k].members)) THEN 0
                          ELSE HullArea2(PointsOf(regions[k].members))])
    /\ (AfterGrowing /\ regions # <<>> /\ AllCollinear) =>
           /\ pc # "raised"
           /\ pc = "done" => area2 = 0

\* the part of C14 that holds of the code.  The area computation always
\* returns: a region whose hull cannot be built adds 0 and is counted, every
\* other region adds its (positive) hull area, and the result is the sum, 0
\* when every region is degenerate.  A hull failure of a candidate merge is
\* counted and the pass goes on.  A merge visit raises exactly when there
\* are fewer than 3 regions, degenerate or not.
C14_HullFailureRecovered ==
    [][/\ pc = "area" =>
              /\ pc' = "done"
              /\ regions' = regions
              /\ area2' = SumOver(1..Len(regions),
                     [k \in 1..Len(regions) |->
                         IF Collinear(PointsOf(regions[k].members)) THEN 0
                         ELSE HullArea2(PointsOf(regions[k].members))])
              /\ \A k \in 1..Len(regions) :
                     ~Collinear(PointsOf(regions[k].members)) =>
                         HullArea2(PointsOf(regions[k].members)) > 0
              /\ count_exceptions' = count_exceptions + Cardinality(
                     {k \in 1..Len(regions) :
                         Collinear(PointsOf(regions[k].members))})
              /\ AllCollinear => area2' = 0
       /\ (pc = "scan" /\ count_exceptions' > count_exceptions) =>
              /\ pc' = "scan"
              /\ regions' = regions
              /\ idx' = idx + 1
       /\ (pc = "scan" /\ idx <= Len(centroids)) =>
              (pc' = "raised" <=> Len(regions) < 3)
       /\ (pc # "raised" /\ pc' = "raised") => pc = "scan"]_vars

\* a call that returned a positive area from regions of which one is
\* degenerate and one is not
C14_MixedRegions ==
    /\ pc = "done"
    /\ area2 > 0
    /\ count_exceptions >= 1
    /\ \E k \in 1..Len(regions) : Collinear(PointsOf(regions[k].members))
    /\ \E k \in 1..Len(regions) : ~Collinear(PointsOf(regions[k].members))

\* the (configuration, instance) pairs the cost source has no entry for
MissingCosts == {m \in Configs \X Range(insts) : m[2] \notin DOMAIN rh[m[1]]}

\* C15: when the cost source lacks a (configuration, instance) pair of the
\* facade, the labelling that needs it aborts with a MissingDataError that
\* names a configuration and an instance whose cost is missing, and the
\* pair gets no label.
C15_MissingDataError ==
    (pc # "new" /\ MissingCosts # {}) =>
        /\ pc = "failed"
        /\ exc.type = "MissingDataError"
        /\ <<exc.config, exc.instance>> \in MissingCosts
        /\ \A m \in MissingCosts : m[2] \notin DOMAIN algo_labels[m[1]]

\* what the code does on a missing cost: the constructor fails with the
\* KeyError of the first missing instance, which names no configuration;
\* neither that instance nor a later one is labelled
C15_KeyErrorAborts ==
    (pc # "new" /\ MissingCosts # {}) =>
        /\ pc = "failed"
        /\ exc.type = "KeyError"
        /\ exc.config = 0
        /\ \E c \in Configs : <<c, exc.instance>> \in MissingCosts
        /\ \A c \in Configs, i \in Range(insts) :
               i >= exc.instance => i \notin DOMAIN algo_labels[c]

\* C16: labels are never reused across a change of epsilon: after every
\* label_instances call each configuration has a label for exactly the
\* instances of the facade, and each label is the one the rule gives for the
\* epsilon of that call and the cutoff, whatever the labels were before.
C16_LabelsRecomputed ==
    [][(pc = "idle" /\ pc' = "idle" /\ last_epsilon' # last_epsilon) =>
          (\A c \in Configs :
              /\ DOMAIN algo_labels'[c] = Range(insts)
              /\ \A i \in Range(insts) :
                     algo_labels'[c][i] = RuleLabel(c, i, last_epsilon'))]_vars

\* relabelled with epsilon 1: a cost of 20 against a best of 19, which the
\* constructor's 0.95 labelled 1, is now labelled 0
C16_Witness ==
    /\ pc = "idle"
    /\ last_epsilon = 100
    /\ \E c \in Configs, i \in Range(insts) :
           /\ rh[c][i] = 20 /\ Best(i) = 19 /\ cutoff > 20
           /\ RuleLabel(c, i, DefaultEpsilon) = 1
           /\ algo_labels[c][i] = 0

\* C17: the seed of every growing iteration is unassigned when it is drawn:
\* a good instance of the unassigned pool when the pool holds one, and an
\* instance of the pool otherwise; never an instance of a region.
C17_SeedUnassigned ==
    [][(pc = "grow" /\ n_grow' = n_grow + 1) =>
          (/\ rand_good' \in Range(not_in_region)
           /\ (Range(good) \cap Range(not_in_region) # {}) =>
                  rand_good' \in Range(good)
           /\ \A k \in 1..Len(regions) : rand_good' \notin regions[k].members)]_vars

\* the squared Euclidean distance of the instances i and j
SquaredDistance(i, j) ==
    (features_2d[i][1] - features_2d[j][1]) * (features_2d[i][1] - features_2d[j][1])
  + (features_2d[i][2] - features_2d[j][2]) * (features_2d[i][2] - features_2d[j][2])

\* pool[j] is nearest to p among the entries of pool outside skip, the
\* earlier entry winning among equal distances
NearestIn(pool, p, j, skip) ==
    \A m \in (1..Len(pool)) \ (skip \cup {j}) :
        \/ SquaredDistance(p, pool[j]) < SquaredDistance(p, pool[m])
        \/ SquaredDistance(p, pool[j]) = SquaredDistance(p, pool[m]) /\ j < m

\* C18: a growing iteration with seed p forms the region {p, n1, n2} of p
\* and the two instances of the unassigned pool (p removed) nearest to p,
\* the earlier of the pool winning a tie, records it under the mean of the
\* three positions, and takes the three out of the pool.
C18_GrowingIteration ==
    [][(pc = "grow" /\ n_grow' = n_grow + 1) =>
          (LET p    == rand_good'
               pool == SelectSeq(not_in_region, LAMBDA x : x # p)
           IN  \E j1 \in 1..Len(pool) : \E j2 \in (1..Len(pool)) \ {j1} :
                   LET t == {p, pool[j1], pool[j2]}
                   IN  /\ NearestIn(pool, p, j1, {})
                       /\ NearestIn(pool, p, j2, {j1})
                       /\ \E k \in 1..Len(regions') :
                              /\ regions'[k].members = t
                              /\ regions'[k].cent[3] > 0
                              /\ 3 * regions'[k].cent[1] = regions'[k].cent[3] *
                                     SumOver(t, [i \in t |-> features_2d[i][1]])
                              /\ 3 * regions'[k].cent[2] = regions'[k].cent[3] *
                                     SumOver(t, [i \in t |-> features_2d[i][2]])
                       /\ not_in_region' =
                              SelectSeq(pool, LAMBDA x : x \notin t))]_vars

\* the example after the iteration of seed D: B and C are equally far from
\* D, and B, the earlier of the pool, is in the region
C18_Witness ==
    /\ ExampleRun
    /\ pc = "grow"
    /\ n_grow = 1
    /\ rand_good = 4
    /\ SquaredDistance(4, 2) = SquaredDistance(4, 3)
    /\ regions = <<[cent |-> <<11, 11, 3>>, members |-> {4, 5, 2}]>>
    /\ not_in_region = <<1, 3>>

\* the centroid of regions[k] is at least as near to cent as that of
\* regions[m]
NoFartherThan(cent, k, m) ==
    Dist2Num(cent, regions[k].cent) * regions[m].cent[3] * regions[m].cent[3]
        <= Dist2Num(cent, regions[m].cent) * regions[k].cent[3] * regions[k].cent[3]

\* C19: a merge visit of region R that finds at least one other region (two
\* regions in all are enough) does not raise, and the candidate it tests, and
\* merges R with on a commit, is another region whose centroid is nearest to
\* that of R.
C19_NearestOtherRegion ==
    [][(pc = "scan" /\ idx <= Len(centroids) /\ Len(regions) >= 2) =>
          (/\ pc' # "raised"
           /\ n_commits' > n_commits =>
                  \E k \in 1..Len(regions) :
                      /\ regions[k].cent # centroids[idx]
                      /\ \A m \in 1..Len(regions) :
                             regions[m].cent # centroids[idx] =>
                                 NoFartherThan(centroids[idx], k, m)
                      /\ \E n \in 1..Len(regions') :
                             regions'[n].members =
                                 DictGet(regions, centroids[idx])
                                     \cup regions[k].members)]_vars

\* the region visited at position idx of the pass
VisitedRegion == DictGet(regions, centroids[idx])

\* the candidate of that visit: the region of the nearest other centroid
CandidateRegion ==
    LET remaining == RemainingCentroids(centroids[idx])
    IN  DictGet(regions, remaining[Get2NN(centroids[idx], remaining)[1]])

\* the number of good instances of R
GoodIn(R) == Cardinality({i \in R : i \in Range(good)})

\* the hull of the candidate merge was built, and density and purity are
\* strictly above their thresholds
MergeTest(R1, R2) ==
    LET U     == R1 \cup R2
        hull2 == HullArea2(PointsOf(U))
    IN  /\ ~Collinear(PointsOf(U))
        /\ 2 * Cardinality(U) * density_threshold[2]
               > density_threshold[1] * hull2
        /\ (GoodIn(R1) + GoodIn(R2)) * purity_threshold[2]
               > purity_threshold[1] * Cardinality(U)

\* s is an arrangement of the keys of the region map, each once
IsOrderOf(s, d) ==
    /\ Len(s) = Len(d)
    /\ \A k \in 1..Len(d) : \E j \in 1..Len(s) : s[j] = d[k].cent

\* C20: every visit of a pass tests a candidate merge and commits it exactly
\* when the hull was built and density and purity are strictly above their
\* thresholds; a commit ends the pass and a new pass over the changed region
\* map begins; the merge stage stops only after a pass that visited every
\* centroid without a commit.
C20_MergeRule ==
    [][/\ (pc = "scan" /\ idx <= Len(centroids)) =>
              /\ pc' # "raised"
              /\ n_commits' = n_commits + 1
                     <=> MergeTest(VisitedRegion, CandidateRegion)
              /\ n_commits' = n_commits + 1 => pc' = "merge" /\ stop' = FALSE
              /\ n_commits' # n_commits + 1 =>
                     regions' = regions /\ pc' = "scan" /\ idx' = idx + 1
       /\ pc = "merge" =>
              pc' = "scan" /\ idx' = 1 /\ IsOrderOf(centroids', regions)
       /\ (pc \in {"merge", "scan"} /\ pc' \notin {"merge", "scan"}) =>
              /\ pc = "scan"
              /\ idx = Len(centroids) + 1
              /\ stop = TRUE
              /\ IsOrderOf(centroids, regions)]_vars

\* the part of C20 that holds of the code, for the visits that do not
\* raise: a candidate merge is committed exactly when its hull was built and
\* density and purity are strictly above their thresholds; a commit ends the
\* pass, and the next pass visits the changed region map in a fresh order
\* from its first position; a visit without commit goes on to the next
\* centroid; the merge loop is left for the area computation only by a pass
\* that visited every centroid without a commit.
C20_CommitRule ==
    [][/\ (pc = "scan" /\ idx <= Len(centroids) /\ pc' # "raised") =>
              /\ n_commits' = n_commits + 1
                     <=> MergeTest(VisitedRegion, CandidateRegion)
              /\ n_commits' = n_commits + 1 =>
                     /\ pc' = "merge"
                     /\ stop' = FALSE
                     /\ Len(regions') < Len(regions)
                     /\ \E n \in 1..Len(regions') :
                            regions'[n].members =
                                VisitedRegion \cup CandidateRegion
              /\ n_commits' # n_commits + 1 =>
                     /\ n_commits' = n_commits
                     /\ regions' = regions
                     /\ pc' = "scan"
                     /\ idx' = idx + 1
       /\ pc = "merge" =>
              /\ pc' = "scan"
              /\ idx' = 1
              /\ stop' = TRUE
              /\ regions' = regions
              /\ IsOrderOf(centroids', regions)
       /\ (pc # "area" /\ pc' = "area") =>
              /\ pc = "scan"
              /\ idx = Len(centroids) + 1
              /\ stop = TRUE
              /\ IsOrderOf(centroids, regions)
              /\ regions' = regions]_vars

\* a pass after its first visit, which did not commit: the hull was built,
\* the density is above its threshold and the purity equals its threshold
C20_PurityEqual ==
    /\ pc = "scan"
    /\ idx = 2
    /\ n_commits = 0
    /\ Len(regions) >= 3
    /\ LET R1 == DictGet(regions, centroids[1])
           remaining == RemainingCentroids(centroids[1])
           R2 == DictGet(regions, remaining[Get2NN(centroids[1], remaining)[1]])
           U  == R1 \cup R2
       IN  /\ ~Collinear(PointsOf(U))
           /\ 2 * Cardinality(U) * density_threshold[2]
                  > density_threshold[1] * HullArea2(PointsOf(U))
           /\ purity_threshold[1] > 0
           /\ (GoodIn(R1) + GoodIn(R2)) * purity_threshold[2]
                  = purity_threshold[1] * Cardinality(U)

\* the same with the density equal to its threshold and the purity above
C20_DensityEqual ==
    /\ pc = "scan"
    /\ idx = 2
    /\ n_commits = 0
    /\ Len(regions) >= 3
    /\ LET R1 == DictGet(regions, centroids[1])
           remaining == RemainingCentroids(centroids[1])
           R2 == DictGet(regions, remaining[Get2NN(centroids[1], remaining)[1]])
           U  == R1 \cup R2
       IN  /\ ~Collinear(PointsOf(U))
           /\ density_threshold[1] > 0
           /\ 2 * Cardinality(U) * density_threshold[2]
                  = density_threshold[1] * HullArea2(PointsOf(U))
           /\ (GoodIn(R1) + GoodIn(R2)) * purity_threshold[2]
                  > purity_threshold[1] * Cardinality(U)

\* the hull of the candidate merge of the visit was built
CandidateHullBuilt ==
    HullArea2(PointsOf(VisitedRegion \cup CandidateRegion)) # 0

\* C21: of every candidate merge whose hull was built, the purity that gates
\* it is the fraction of good instances of the union of R and R' and so is
\* at most 1, and the density is the size of the union over the hull volume:
\* the merge is committed exactly when that density and that fraction are
\* strictly above their thresholds.
C21_PurityIsFraction ==
    [][(pc = "scan" /\ idx <= Len(centroids) /\ Len(regions) >= 3
            /\ CandidateHullBuilt) =>
          (LET U == VisitedRegion \cup CandidateRegion
           IN  /\ GoodCount(VisitedRegion) + GoodCount(CandidateRegion)
                      = GoodIn(U)
               /\ GoodCount(VisitedRegion) + GoodCount(CandidateRegion)
                      <= Cardinality(U)
               /\ n_commits' = n_commits + 1 <=>
                      /\ 2 * Cardinality(U) * density_threshold[2]
                             > density_threshold[1] * HullArea2(PointsOf(U))
                      /\ GoodIn(U) * purity_threshold[2]
                             > purity_threshold[1] * Cardinality(U))]_vars

\* the part of C21 that holds of the code: the density of a candidate merge
\* is the size of the union over its hull volume, and the purity is the
\* fraction of good instances of the union whenever R and R' are disjoint
C21_DensityAndDisjointPurity ==
    [][(pc = "scan" /\ idx <= Len(centroids) /\ Len(regions) >= 3
            /\ CandidateHullBuilt) =>
          (LET U == VisitedRegion \cup CandidateRegion
           IN  /\ n_commits' = n_commits + 1 =>
                      2 * Cardinality(U) * density_threshold[2]
                          > density_threshold[1] * HullArea2(PointsOf(U))
               /\ VisitedRegion \cap CandidateRegion = {} =>
                      /\ GoodCount(VisitedRegion) + GoodCount(CandidateRegion)
                             = GoodIn(U)
                      /\ n_commits' = n_commits + 1 <=>
                             /\ 2 * Cardinality(U) * density_threshold[2]
                                    > density_threshold[1] * HullArea2(PointsOf(U))
                             /\ GoodIn(U) * purity_threshold[2]
                                    > purity_threshold[1] * Cardinality(U))]_vars

\* a visit whose candidate merge passes the purity test of the code and
\* fails it by the fraction of good instances of the union: R and R' share
\* a good instance, which is counted in both
C21_SharedCountedTwice ==
    /\ pc = "scan"
    /\ idx <= Len(centroids)
    /\ Len(regions) >= 3
    /\ CandidateHullBuilt
    /\ VisitedRegion \cap CandidateRegion \cap Range(good) # {}
    /\ PurityAbove(VisitedRegion, CandidateRegion,
                   VisitedRegion \cup CandidateRegion, purity_threshold)
    /\ GoodIn(VisitedRegion \cup CandidateRegion) * purity_threshold[2]
           <= purity_threshold[1]
                  * Cardinality(VisitedRegion \cup CandidateRegion)

\* C22: when the hull of the union of R and R' cannot be built, the visit
\* skips the candidate: the region map, the visiting order, stop and the
\* number of commits are as before, the failure is counted once, and the
\* pass goes on with the next position of the visiting order.
C22_HullFailureSkips ==
    [][(/\ pc = "scan" /\ idx <= Len(centroids) /\ Len(regions) >= 3
        /\ Collinear(PointsOf(VisitedRegion \cup CandidateRegion))) =>
          (/\ regions' = regions
           /\ centroids' = centroids
           /\ count_exceptions' = count_exceptions + 1
           /\ pc' = "scan"
           /\ idx' = idx + 1
           /\ stop' = stop
           /\ stop = TRUE
           /\ n_commits' = n_commits)]_vars

\* a merge stage that ended after one pass in which every visit failed to
\* build its hull: three or more regions, no commit, no second pass
C22_Witness ==
    /\ pc = "area"
    /\ Len(regions) >= 3
    /\ n_regions_at_merge = Len(regions)
    /\ n_commits = 0
    /\ idx = Len(centroids) + 1
    /\ count_exceptions = Len(centroids)
    /\ stop = TRUE

\* the centroid of the candidate of the visit
CandidateCentroid ==
    LET remaining == RemainingCentroids(centroids[idx])
    IN  remaining[Get2NN(centroids[idx], remaining)[1]]

\* C23: centroid keys identify regions uniquely.  A growing iteration adds
\* its triangle to the region map and leaves every region recorded before in
\* place; a committed merge leaves the previous regions minus R and R' plus
\* their union, every other region unchanged.
C23_KeysIdentifyRegions ==
    [][/\ (pc = "grow" /\ n_grow' = n_grow + 1) =>
              /\ Len(regions') = Len(regions) + 1
              /\ \A k \in 1..Len(regions) : regions'[k] = regions[k]
       /\ (pc = "scan" /\ n_commits' = n_commits + 1) =>
              /\ Len(regions') = Len(regions) - 1
              /\ \A k \in 1..Len(regions) :
                     regions[k].cent \notin {centroids[idx], CandidateCentroid}
                         => \E n \in 1..Len(regions') : regions'[n] = regions[k]
              /\ \E n \in 1..Len(regions') :
                     /\ regions'[n].members = VisitedRegion \cup CandidateRegion
                     /\ VisitedRegion \subseteq regions'[n].members
                     /\ CandidateRegion \subseteq regions'[n].members]_vars

\* the part of C23 about merges: a committed merge leaves the previous
\* regions minus R and R' plus their union, every other region unchanged
C23_CommitKeepsOthers ==
    [][(pc = "scan" /\ n_commits' = n_commits + 1) =>
          (/\ Len(regions') = Len(regions) - 1
           /\ \A k \in 1..Len(regions) :
                  regions[k].cent \notin {centroids[idx], CandidateCentroid}
                      => \E n \in 1..Len(regions') : regions'[n] = regions[k]
           /\ \E n \in 1..Len(regions') :
                  regions'[n].members = VisitedRegion \cup CandidateRegion)]_vars

\* a growing stage in which a triangle was recorded under the key of an
\* earlier one: fewer regions than iterations, and an instance that is
\* neither unassigned nor in a region
C23_RegionReplaced ==
    /\ pc = "grow"
    /\ Len(regions) < n_grow
    /\ \E i \in Range(insts) :
           /\ i \notin Range(not_in_region)
           /\ \A k \in 1..Len(regions) : i \notin regions[k].members

\* the largest score over the candidate counts tried
MaxScore == CHOOSE m \in {scores[k] : k \in DOMAIN scores} :
                \A k \in DOMAIN scores : scores[k] <= m

\* what get_clusters returns is the partition of the smallest candidate
\* count whose score is the largest: the keys are 0..k-1 and every instance
\* name is once in the list of its cluster id and in no other list
ReturnsBestPartition ==
    LET k == Cardinality(DOMAIN cluster_dict')
    IN  /\ DOMAIN scores = MinClusters..(MaxClusters - 1)
        /\ k \in DOMAIN scores
        /\ scores[k] = MaxScore
        /\ \A j \in DOMAIN scores : j < k => scores[j] < MaxScore
        /\ clusters' \in FitPredict(Len(insts), k)
        /\ DOMAIN cluster_dict' = 0..(k - 1)
        /\ \A j \in 1..Len(insts) :
               /\ clusters'[j] \in DOMAIN cluster_dict'
               /\ \A c \in DOMAIN cluster_dict' :
                      Cardinality({m \in 1..Len(cluster_dict'[c]) :
                                      cluster_dict'[c][m] = insts[j]})
                          = IF c = clusters'[j] THEN 1 ELSE 0

\* C24: the Instance Clusterer tries k = 2, 3, ..., 11 in increasing order,
\* each once, and returns the partition of the smallest k whose silhouette
\* score is the maximum of the ten; the returned mapping has the keys
\* 0..k-1 and every instance name is in exactly one of its lists, that of
\* its cluster id.
C24_Clusterer ==
    [][/\ pc = "init" => pc' = "clustering" /\ n_clusters' = 2
       /\ pc = "clustering" =>
              /\ pc' \in {"clustering", "new"}
              /\ pc' = "clustering" =>
                     /\ n_clusters \in 2..11
                     /\ n_clusters' = n_clusters + 1
                     /\ DOMAIN scores' = 2..n_clusters
              /\ pc' = "new" => n_clusters = 12 /\ ReturnsBestPartition]_vars

\* the part of C24 that holds of the code: the candidate counts are tried
\* in the order 2, ..., 11, and when no library call raises the partition of
\* the smallest count with the largest score is returned
C24_SelectionRule ==
    [][/\ pc = "init" => pc' = "clustering" /\ n_clusters' = 2
       /\ pc = "clustering" =>
              /\ pc' \in {"clustering", "new", "failed"}
              /\ pc' = "clustering" =>
                     /\ n_clusters \in 2..11
                     /\ n_clusters' = n_clusters + 1
                     /\ DOMAIN scores' = 2..n_clusters
              /\ pc' = "new" => n_clusters = 12 /\ ReturnsBestPartition
              /\ pc' = "failed" =>
                     /\ Len(insts) <= n_clusters
                     /\ exc' = ValueError]_vars

\* the loop is over and 3 clusters are retained: 3 is the first count with
\* the largest score, which a later count reached again
C24_TieKeepsSmallest ==
    /\ pc = "clustering"
    /\ n_clusters = MaxClusters
    /\ best_n_clusters = 3
    /\ scores[2] < scores[3]
    /\ scores[7] = scores[3]
    /\ clusters \in FitPredict(Len(insts), 3)

\* the facade of 5 instances: the constructor failed at the candidate
\* count 5
C24_FiveInstancesFail ==
    /\ Len(insts) = 5
    /\ pc = "failed"
    /\ exc = ValueError
    /\ n_clusters = 5

\* C25: the growing stage terminates and does not fail.  An iteration is
\* entered with at least 3 unassigned instances, its neighbour search has at
\* least 2 candidates once the seed is taken out, in the pool or not, it
\* does not raise, and it takes at least 2 instances out of the pool, so
\* that twice the number of iterations plus the size of the pool never
\* exceeds the number of instances; the stage ends, for the merge stage,
\* with fewer than 3 unassigned instances.
C25_GrowingTerminates ==
    [][pc = "grow" =>
          (/\ pc' \in {"grow", "merge"}
           /\ 2 * n_grow + Len(not_in_region) <= Len(insts)
           /\ pc' = "grow" =>
                  /\ Len(not_in_region) >= 3
                  /\ n_grow' = n_grow + 1
                  /\ Cardinality(Range(not_in_region) \ {rand_good'}) >= 2
                  /\ Len(not_in_region') <= Len(not_in_region) - 2
                  /\ Len(not_in_region') >= 0
                  /\ 2 * n_grow' + Len(not_in_region') <= Len(insts)
           /\ pc' = "merge" =>
                  /\ Len(not_in_region) < 3
                  /\ not_in_region' = not_in_region)]_vars

\* the growing stage is over after an iteration that began with exactly 3
\* unassigned instances and a seed that was not among them: it took 2 out
\* of the pool and left 1
C25_Witness ==
    /\ pc = "merge"
    /\ n_grow >= 2
    /\ Len(not_in_region) = 1
    /\ Len(insts) - Len(not_in_region) < 3 * n_grow
    /\ Len(insts) - Len(not_in_region) = 3 * (n_grow - 1) + 2

\* C26: every region of a footprint computation has at least 3 distinct
\* instances, at least one of them good.  The region a growing iteration
\* records has exactly 3 members, among them its seed, which is good; the
\* region a committed merge records is the union of the visited region and
\* its candidate, which are no longer in the map.
C26_RegionsWellFormed ==
    [][/\ \A k \in 1..Len(regions') :
              /\ Cardinality(regions'[k].members) >= 3
              /\ regions'[k].members \cap Range(good') # {}
              /\ regions'[k].members \subseteq Range(insts)
       /\ (pc = "grow" /\ n_grow' = n_grow + 1) =>
              /\ rand_good' \in Range(good)
              /\ \E k \in 1..Len(regions') :
                     /\ rand_good' \in regions'[k].members
                     /\ Cardinality(regions'[k].members) = 3
                     /\ regions'[k].members \ {rand_good'}
                            \subseteq Range(not_in_region)
                     /\ \A m \in 1..Len(regions) : regions[m] # regions'[k]
       /\ (pc = "scan" /\ n_commits' = n_commits + 1) =>
              /\ \E k \in 1..Len(regions') :
                     /\ regions'[k].members = VisitedRegion \cup CandidateRegion
                     /\ Cardinality(regions'[k].members) >= 4
              /\ \A k \in 1..Len(regions') :
                     regions'[k].cent \notin {centroids[idx], CandidateCentroid}
                         \/ regions'[k].members
                                = VisitedRegion \cup CandidateRegion]_vars

\* after a committed merge: a region of 5 instances, the union of two
\* triangles that share their seed, next to a region of 3
C26_Witness ==
    /\ pc = "merge"
    /\ n_commits = 1
    /\ \E k \in 1..Len(regions) : Cardinality(regions[k].members) = 5
    /\ \E k \in 1..Len(regions) : Cardinality(regions[k].members) = 3

\* C27: after a labelling with epsilon <= 1, every instance whose smallest
\* cost over the configurations is 0 or below the cutoff has a configuration
\* labelled 1: each configuration that achieves that smallest cost.
C27_BestIsGood ==
    (pc = "idle" /\ last_epsilon <= 100) =>
        \A i \in Range(insts) :
            (Best(i) = 0 \/ Best(i) < cutoff) =>
                /\ \E c \in Configs : algo_labels[c][i] = 1
                /\ \A c \in Configs :
                       rh[c][i] = Best(i) => algo_labels[c][i] = 1

\* labelled with epsilon 1: on one instance only the configuration of the
\* smallest cost is good, on another the smallest cost is a timeout and no
\* configuration is good
C27_Witness ==
    /\ pc = "idle"
    /\ last_epsilon = 100
    /\ \E i \in Range(insts), c, b \in Configs :
           /\ rh[c][i] = Best(i) /\ Best(i) > 0 /\ Best(i) < cutoff
           /\ rh[b][i] > Best(i)
           /\ algo_labels[c][i] = 1 /\ algo_labels[b][i] = 0
    /\ \E i \in Range(insts) :
           /\ Best(i) >= cutoff /\ Best(i) > 0
           /\ \A c \in Configs : algo_labels[c][i] = 0

\* the labelling calls of a plot_points_per_cluster that returned, given
\* the epsilons of its first loop: those, then the default once per cluster,
\* then the default once more
PlotLabellings(epsilons) ==
    epsilons \o [k \in 1..(Cardinality(DOMAIN cluster_dict) + 1) |->
                    DefaultEpsilon]

\* C28 as stated: plot_points_per_cluster relabels with the epsilons 0.0,
\* 0.95, 0.96 and 0.98 while it runs, and when it returns the stored labels
\* are those of the default epsilon 0.95, the labels of the constructor.
C28_Original ==
    [][(pc = "plot_clusters" /\ pc' = "idle" /\ exc' = NoExc) =>
          (/\ plot_log' = PlotLabellings(<<0, 95, 96, 98>>)
           /\ last_epsilon' = DefaultEpsilon
           /\ \A c \in Configs, i \in Range(insts) :
                  algo_labels'[c][i] = RuleLabel(c, i, DefaultEpsilon))]_vars

\* C28, amended: the epsilons of the first loop are 0.0, 0.95, 0.96, 0.98
\* and 1.0, each followed by the labels of that epsilon; when
\* plot_points_per_cluster returns the stored labels are those of the
\* default epsilon 0.95.
C28_PlotRestoresDefault ==
    [][/\ (pc = "plot_eps" /\ exc' = NoExc) =>
              /\ last_epsilon' = <<0, 95, 96, 98, 100>>[plot_i]
              /\ \A c \in Configs, i \in Range(insts) :
                     algo_labels'[c][i] = RuleLabel(c, i, last_epsilon')
              /\ pc' = "plot_clusters" <=> plot_i = 5
       /\ (pc = "plot_clusters" /\ pc' = "idle" /\ exc' = NoExc) =>
              /\ plot_log' = PlotLabellings(<<0, 95, 96, 98, 100>>)
              /\ last_epsilon' = DefaultEpsilon
              /\ DOMAIN algo_labels' = Configs
              /\ \A c \in Configs :
                     /\ DOMAIN algo_labels'[c] = Range(insts)
                     /\ \A i \in Range(insts) :
                            algo_labels'[c][i] = RuleLabel(c, i, DefaultEpsilon)]_vars

\* plot_points_per_cluster has returned: a cost of 20 against a best of 19
\* is labelled 1 again, after being labelled 0 with the epsilons 0.96, 0.98
\* and 1.0 on the way
C28_Witness ==
    /\ pc = "idle"
    /\ plot_log = PlotLabellings(PlotEpsilons)
    /\ Len(plot_log) >= 8
    /\ last_epsilon = DefaultEpsilon
    /\ \E c \in Configs, i \in Range(insts) :
           /\ rh[c][i] = 20 /\ Best(i) = 19
           /\ RuleLabel(c, i, 96) = 0
           /\ RuleLabel(c, i, 100) = 0
           /\ algo_labels[c][i] = 1

\* the visiting order is an arrangement of the keys of the region map, and
\* the centroid visited at position idx is one of them
VisitedIsKey ==
    (pc = "scan" /\ idx <= Len(centroids)) =>
        /\ IsOrderOf(centroids, regions)
        /\ HasKey(regions, centroids[idx])

\* when the neighbour search finds the two centroids it reads, the centroid
\* it selects is another key of the map
SelectedIsKey ==
    (pc = "scan" /\ idx <= Len(centroids) /\ Len(regions) >= 3) =>
        LET nearest_cent == CandidateCentroid
        IN  /\ HasKey(regions, nearest_cent)
            /\ nearest_cent # centroids[idx]

\* C29: within a pass of the merge stage every centroid of the visiting
\* order is a key of the region map when it is looked up, and so is the
\* nearest centroid selected for it; the map and the visiting order change
\* only by a commit, which pops these two keys and ends the pass.
C29_NoStaleCentroid ==
    [][/\ VisitedIsKey'
       /\ SelectedIsKey
       /\ (pc = "scan" /\ pc' = "scan") =>
              regions' = regions /\ centroids' = centroids
       /\ (pc = "scan" /\ regions' # regions) =>
              /\ n_commits' = n_commits + 1
              /\ pc' = "merge"
              /\ LET nearest_cent == CandidateCentroid
                 IN  /\ HasKey(regions, centroids[idx])
                     /\ HasKey(regions, nearest_cent)
                     /\ Len(DictPop(DictPop(regions, centroids[idx]),
                                    nearest_cent)) = Len(regions) - 2]_vars

\* the last visit of a pass that follows a commit: the visiting order was
\* taken from the changed region map
C29_Witness ==
    /\ pc = "scan"
    /\ n_commits >= 1
    /\ Len(regions) >= 3
    /\ idx = Len(centroids)
    /\ HasKey(regions, centroids[idx])
    /\ HasKey(regions, CandidateCentroid)

====
